---- MODULE Spec2Model ----
(***************************************************************************)
(* Formula matching engine of src/utils.ts: the single-formula comparison  *)
(* compareFormulaWithInput and the ratio similarity it uses.               *)
(*                                                                         *)
(* Herb names are written in pinyin, one capitalised syllable for each     *)
(* ideograph of the source ("MaHuang" for the two ideographs of ma huang). *)
(*                                                                         *)
(* Numbers that the source holds in doubles are modelled exactly: a value  *)
(* is a record [num, den, rad] that stands for num / (den * sqrt(rad)).    *)
(* A quotient of two integers has rad = 1; a cosine similarity             *)
(* dot / (sqrt(magInput) * sqrt(magStandard)) has den = 1 and              *)
(* rad = magInput * magStandard.  0/0 (den = 0, num = 0) is NaN.           *)
(***************************************************************************)
EXTENDS Integers, Sequences, FiniteSets, TLC

VARIABLES
    herbs,      \* the parsed input list handed to the matcher (Herb[])
    candidate,  \* the formula the input is compared with (StandardFormula)
    result,     \* what compareFormulaWithInput returned: Null or <<MatchResult>>;
                \* what calculateRatioSimilarity returned: <<number>>
    pc,         \* "ready" before the call; "compared", "ranked", "judged" or
                \* "parsed" after it, by the function called
    formulas,   \* the formula database handed to findMatches (StandardFormula[])
    matches,    \* what findMatches returned (MatchResult[])
    calls,      \* how many comparisons the last findMatches call performed
    input,      \* the raw text handed to the parser, a sequence of characters
    dosage,     \* the mapping handed to formatDosageToString: its entries
                \* [name, amount] in the order of the object's keys
    str,        \* the text handed to parseDosageString, a sequence of characters
    parsed,     \* the mapping parseDosageString returned
    appInput,   \* App: the text of the input box, a sequence of characters
    shown,      \* App: the match list on display (state matches of App)
    isSearchingCloud,   \* App: the flag of the same name
    pending,    \* App: the awaited identifyFormula call of handleSearch:
                \* Null, or <<the herbs it was given>>
    cleared,    \* history: the clear button was pressed and no search was
                \* started since
    users,      \* authService: the list stored under tcm_users
    currentId,  \* authService: the id stored under tcm_current_user_id, 0 for none
    now,        \* authService: the clock Date.now() reads, in milliseconds
    reply       \* authService: the register or login call just made and its
                \* success, NoCall after any other step

coreVars == <<herbs, candidate, result, formulas, matches, calls, input>>
codecVars == <<dosage, str, parsed>>
appVars == <<appInput, shown, isSearchingCloud, pending, cleared>>
authVars == <<users, currentId, now, reply>>
shellVars == <<appVars, authVars>>
vars == <<coreVars, pc, codecVars, shellVars>>

\* no dosage mapping is being converted
CodecIdle == dosage = <<>> /\ str = <<>> /\ parsed = <<>>
\* the page and the account store are not in use
AppIdle ==
    /\ appInput = <<>> /\ shown = <<>> /\ isSearchingCloud = FALSE
    /\ pending = <<>> /\ cleared = FALSE
NoCall == [call |-> "none", nickname |-> "", success |-> FALSE]
AuthIdle == users = <<>> /\ currentId = 0 /\ now = 1 /\ reply = NoCall
ShellIdle == AppIdle /\ AuthIdle

----------------------------------------------------------------------------
(* Optional values: an absent field / null is the empty tuple, a present   *)
(* one is the one-element tuple holding it.                                *)
Null == <<>>
Some(x) == <<x>>
IsNull(o) == Len(o) = 0
Get(o) == o[1]

----------------------------------------------------------------------------
(* Exact arithmetic on the non-negative numbers of the matcher.            *)
RECURSIVE Gcd(_, _)
Gcd(a, b) == IF b = 0 THEN a ELSE Gcd(b, a % b)

\* a / b for two non-negative integers (0/0 is NaN, kept as 0/0)
Frac(a, b) ==
    LET g == Gcd(a, b)
    IN  IF g = 0 THEN [num |-> 0, den |-> 0, rad |-> 1]
        ELSE [num |-> a \div g, den |-> b \div g, rad |-> 1]

\* x * y
Times(x, y) ==
    LET q == Frac(x.num * y.num, x.den * y.den)
    IN  [num |-> q.num, den |-> q.den, rad |-> x.rad * y.rad]

\* x + y for two quotients (rad = 1)
Plus(x, y) == Frac(x.num * y.den + y.num * x.den, x.den * y.den)

IsNaN(x) == x.den = 0 /\ x.num = 0

\* x < y, x = y, x <= y on the values (false when either is NaN, as in JS)
Less(x, y) ==
    /\ ~IsNaN(x) /\ ~IsNaN(y)
    /\ x.num * x.num * y.den * y.den * y.rad < y.num * y.num * x.den * x.den * x.rad
Same(x, y) ==
    /\ ~IsNaN(x) /\ ~IsNaN(y)
    /\ x.num * x.num * y.den * y.den * y.rad = y.num * y.num * x.den * x.den * x.rad
AtMost(x, y) == Less(x, y) \/ Same(x, y)

Zero == Frac(0, 1)
One == Frac(1, 1)

----------------------------------------------------------------------------
(* compareFormulaWithInput, src/utils.ts 132-211.                          *)
(* A Herb is [name, dosage, unit, originalText]; a StandardFormula is      *)
(* [name, composition, standardDosage, isAiGenerated], standardDosage     *)
(* being Null or <<map>>, the map a function from herb names to amounts.   *)

inputNames(inputHerbs) == {inputHerbs[i].name : i \in DOMAIN inputHerbs}
formulaNames(formula) == {formula.composition[i] : i \in DOMAIN formula.composition}

\* 1. ingredient overlap
intersection(inputHerbs, formula) ==
    SelectSeq(formula.composition, LAMBDA name : name \in inputNames(inputHerbs))
missing(inputHerbs, formula) ==
    SelectSeq(formula.composition, LAMBDA name : name \notin inputNames(inputHerbs))
\* mutant: the filter tests the input's own names instead of the formula's
additionalAgainstInput(inputHerbs, formula) ==
    SelectSeq(inputHerbs, LAMBDA h : h.name \notin inputNames(inputHerbs))
additional(inputHerbs, formula) ==
    SelectSeq(inputHerbs, LAMBDA h : h.name \notin formulaNames(formula))

\* recall = intersection.length / formula.composition.length
recall(inputHerbs, formula) ==
    Frac(Len(intersection(inputHerbs, formula)), Len(formula.composition))
\* precision = intersection.length / inputHerbs.length
precision(inputHerbs, formula) ==
    Frac(Len(intersection(inputHerbs, formula)), Len(inputHerbs))

RecallWeight == Frac(6, 10)
PrecisionWeight == Frac(4, 10)

\* mutant: the plain mean (recall + precision) / 2
baseScoreMean(inputHerbs, formula) ==
    Times(Plus(recall(inputHerbs, formula), precision(inputHerbs, formula)), Frac(1, 2))

\* (recall * 0.6) + (precision * 0.4)
baseScore(inputHerbs, formula) ==
    Plus(Times(recall(inputHerbs, formula), RecallWeight),
         Times(precision(inputHerbs, formula), PrecisionWeight))

\* the two filters that make the comparison return null
NoiseInputLength == 4
noMatchingHerb(inputHerbs, formula) == Len(intersection(inputHerbs, formula)) = 0
\* mutant: the filter forgets the exemption of AI-generated formulas
weakMatchAnyFormula(inputHerbs, formula) ==
    /\ Len(inputHerbs) > NoiseInputLength
    /\ Len(intersection(inputHerbs, formula)) <= 1
weakMatch(inputHerbs, formula) ==
    /\ Len(inputHerbs) > NoiseInputLength
    /\ Len(intersection(inputHerbs, formula)) <= 1
    /\ ~formula.isAiGenerated

\* standardDosage[name] is truthy: the key is there and its amount is not 0
hasStandard(standardDosage, name) ==
    name \in DOMAIN standardDosage /\ standardDosage[name] # 0

\* mutant: the keys are those of the standard dosage map
commonKeysOfStandard(inputHerbs, standardDosage) ==
    LET S == {n \in DOMAIN standardDosage : standardDosage[n] # 0}
    IN  CHOOSE f \in [1..Cardinality(S) -> S] : \A n \in S : \E i \in DOMAIN f : f[i] = n
\* inputHerbs.filter(h => standardDosage[h.name]).map(h => h.name)
commonKeys(inputHerbs, standardDosage) ==
    LET kept == SelectSeq(inputHerbs, LAMBDA h : hasStandard(standardDosage, h.name))
    IN  [i \in 1..Len(kept) |-> kept[i].name]

\* inputHerbs.find(h => h.name === k)!.dosage : the first entry of that name
findDosage(inputHerbs, k) ==
    LET i == CHOOSE j \in DOMAIN inputHerbs :
                 /\ inputHerbs[j].name = k
                 /\ \A l \in 1..(j - 1) : inputHerbs[l].name # k
    IN  inputHerbs[i].dosage

inputVector(inputHerbs, standardDosage) ==
    LET keys == commonKeys(inputHerbs, standardDosage)
    IN  [i \in 1..Len(keys) |-> findDosage(inputHerbs, keys[i])]
standardVector(inputHerbs, standardDosage) ==
    LET keys == commonKeys(inputHerbs, standardDosage)
    IN  [i \in 1..Len(keys) |-> standardDosage[keys[i]]]

\* the accumulation loop: sum of v[i] * w[i]
RECURSIVE DotProduct(_, _)
DotProduct(v, w) ==
    IF Len(v) = 0 THEN 0
    ELSE Head(v) * Head(w) + DotProduct(Tail(v), Tail(w))

MinCommonKeys == 2

calculateRatioSimilarity(inputHerbs, standardDosage) ==
    LET iv == inputVector(inputHerbs, standardDosage)
        sv == standardVector(inputHerbs, standardDosage)
        dotProduct == DotProduct(iv, sv)
        magInput == DotProduct(iv, iv)
        magStandard == DotProduct(sv, sv)
    IN  IF Len(commonKeys(inputHerbs, standardDosage)) < MinCommonKeys THEN One
        ELSE IF magInput = 0 \/ magStandard = 0 THEN Zero
        ELSE [num |-> dotProduct, den |-> 1, rad |-> magInput * magStandard]

\* 2. exact ingredient match (set equality)
exactIngredients(inputHerbs, formula) ==
    Len(missing(inputHerbs, formula)) = 0 /\ Len(additional(inputHerbs, formula)) = 0

\* 3. the dosage ratios are checked: every entry has a dosage and the formula
\*    has a standardDosage
\* mutant: some entry has a dosage, instead of every entry
hasDosageSome(inputHerbs) == \E i \in DOMAIN inputHerbs : inputHerbs[i].dosage > 0
hasDosage(inputHerbs) == \A i \in DOMAIN inputHerbs : inputHerbs[i].dosage > 0
ratioChecked(inputHerbs, formula) ==
    /\ exactIngredients(inputHerbs, formula)
    /\ hasDosage(inputHerbs)
    /\ ~IsNull(formula.standardDosage)

ratioScore(inputHerbs, formula) ==
    calculateRatioSimilarity(inputHerbs, Get(formula.standardDosage))

\* mutant: a threshold of 0.9
RatioThresholdStrict == Frac(9, 10)
\* 0.85 = 17/20
RatioThreshold == Frac(17, 20)
ratioMismatch(inputHerbs, formula) ==
    /\ ratioChecked(inputHerbs, formula)
    /\ Less(ratioScore(inputHerbs, formula), RatioThreshold)

\* mutant: "subset" as soon as there are additional herbs
matchTypeSubsetOnAdditional(inputHerbs, formula) ==
    IF exactIngredients(inputHerbs, formula)
    THEN IF ratioMismatch(inputHerbs, formula) THEN "ratio-mismatch" ELSE "exact"
    ELSE IF Len(additional(inputHerbs, formula)) > 0 THEN "subset" ELSE "variant"

\* mutant: the branch "input is a subset of the formula" names itself "subset"
matchTypeSubsetOfFormula(inputHerbs, formula) ==
    IF exactIngredients(inputHerbs, formula)
    THEN IF ratioMismatch(inputHerbs, formula) THEN "ratio-mismatch" ELSE "exact"
    ELSE IF Len(missing(inputHerbs, formula)) = 0
              /\ Len(additional(inputHerbs, formula)) > 0
         THEN "subset"
         ELSE IF Len(missing(inputHerbs, formula)) > 0
                   /\ Len(additional(inputHerbs, formula)) = 0
              THEN "subset"
              ELSE "variant"

matchType(inputHerbs, formula) ==
    IF exactIngredients(inputHerbs, formula)
    THEN IF ratioMismatch(inputHerbs, formula) THEN "ratio-mismatch" ELSE "exact"
    ELSE IF Len(missing(inputHerbs, formula)) = 0
              /\ Len(additional(inputHerbs, formula)) > 0
         THEN "subset"
         ELSE "variant"

\* mutant: an exact match keeps its base score
finalScoreNoBoost(inputHerbs, formula) ==
    IF ratioMismatch(inputHerbs, formula)
    THEN Times(baseScore(inputHerbs, formula), ratioScore(inputHerbs, formula))
    ELSE baseScore(inputHerbs, formula)

finalScore(inputHerbs, formula) ==
    IF exactIngredients(inputHerbs, formula)
    THEN IF ratioMismatch(inputHerbs, formula)
         THEN Times(One, ratioScore(inputHerbs, formula))
         ELSE One
    ELSE baseScore(inputHerbs, formula)

SignificantDeviation == "same herbs, ratio differs significantly from the original"
HighConformity == "ratio conforms closely to the original"

dosageNote(inputHerbs, formula) ==
    IF ~ratioChecked(inputHerbs, formula) THEN Null
    ELSE Some([similarity |-> ratioScore(inputHerbs, formula),
               details |-> IF ratioMismatch(inputHerbs, formula)
                           THEN SignificantDeviation
                           ELSE HighConformity])

compareFormulaWithInput(inputHerbs, formula) ==
    IF noMatchingHerb(inputHerbs, formula) THEN Null
    ELSE IF weakMatch(inputHerbs, formula) THEN Null
    ELSE Some([formula |-> formula,
               score |-> finalScore(inputHerbs, formula),
               matchType |-> matchType(inputHerbs, formula),
               missingHerbs |-> missing(inputHerbs, formula),
               additionalHerbs |-> additional(inputHerbs, formula),
               inputHerbs |-> inputHerbs,
               dosageAnalysis |-> dosageNote(inputHerbs, formula)])

----------------------------------------------------------------------------
(* findMatches, src/utils.ts 218-276.                                      *)

\* database.forEach: the non-null comparisons, in database order
RECURSIVE collectResults(_, _)
collectResults(inputHerbs, database) ==
    IF Len(database) = 0 THEN <<>>
    ELSE compareFormulaWithInput(inputHerbs, Head(database))
            \o collectResults(inputHerbs, Tail(database))

\* results.sort((a, b) => b.score - a.score): Array.prototype.sort is stable,
\* an element goes behind every element whose score is not below its own
\* mutant: an element goes before the elements of the same score
insertBeforeEqual(sorted, r) ==
    LET k == Cardinality({i \in DOMAIN sorted : Less(r.score, sorted[i].score)})
    IN  SubSeq(sorted, 1, k) \o <<r>> \o SubSeq(sorted, k + 1, Len(sorted))
\* mutant: the results stay in the order of collection
insertAtEnd(sorted, r) == Append(sorted, r)
insertByScore(sorted, r) ==
    LET k == Cardinality({i \in DOMAIN sorted : ~Less(sorted[i].score, r.score)})
    IN  SubSeq(sorted, 1, k) \o <<r>> \o SubSeq(sorted, k + 1, Len(sorted))
RECURSIVE sortByScore(_)
sortByScore(results) ==
    IF Len(results) = 0 THEN <<>>
    ELSE insertByScore(sortByScore(SubSeq(results, 1, Len(results) - 1)),
                       results[Len(results)])

sortedMatches(inputHerbs, database) == sortByScore(collectResults(inputHerbs, database))

\* the leftovers of the top match are compared with every formula of another name
MinLeftovers == 2
otherFormulas(database, topMatch) ==
    SelectSeq(database, LAMBDA f : f.name # topMatch.formula.name)
sortedSecondary(database, topMatch) ==
    sortByScore(collectResults(topMatch.additionalHerbs, otherFormulas(database, topMatch)))

\* how many composition names of the second match are among the leftovers
explainedBySecond(leftoverHerbs, secondMatch) ==
    Len(SelectSeq(secondMatch.formula.composition,
                  LAMBDA c : \E i \in DOMAIN leftoverHerbs : leftoverHerbs[i].name = c))

MinExplained == 2
\* mutant: one explained leftover is enough
validCombinationFromOne(leftoverHerbs, secondMatch) ==
    explainedBySecond(leftoverHerbs, secondMatch) >= 1
validCombination(leftoverHerbs, secondMatch) ==
    \/ explainedBySecond(leftoverHerbs, secondMatch) >= MinExplained
    \/ explainedBySecond(leftoverHerbs, secondMatch) = Len(leftoverHerbs)

\* mutant: the annotation also raises the score of the top match
markCombinedRescored(topMatch, secondMatch) ==
    [formula |-> topMatch.formula,
     score |-> One,
     matchType |-> topMatch.matchType,
     missingHerbs |-> topMatch.missingHerbs,
     additionalHerbs |-> topMatch.additionalHerbs,
     inputHerbs |-> topMatch.inputHerbs,
     dosageAnalysis |-> topMatch.dosageAnalysis,
     isCombined |-> TRUE,
     combinedWith |-> secondMatch.formula.name]
\* topMatch.isCombined = true; topMatch.combinedWith = secondMatch.formula.name
markCombined(topMatch, secondMatch) ==
    [formula |-> topMatch.formula,
     score |-> topMatch.score,
     matchType |-> topMatch.matchType,
     missingHerbs |-> topMatch.missingHerbs,
     additionalHerbs |-> topMatch.additionalHerbs,
     inputHerbs |-> topMatch.inputHerbs,
     dosageAnalysis |-> topMatch.dosageAnalysis,
     isCombined |-> TRUE,
     combinedWith |-> secondMatch.formula.name]

\* mutant: the detection runs from one leftover herb on
detectCombinedFromOne(database, topMatch) ==
    IF Len(topMatch.additionalHerbs) >= 1
    THEN LET secondary == sortedSecondary(database, topMatch)
         IN  IF Len(secondary) > 0
                  /\ validCombination(topMatch.additionalHerbs, secondary[1])
             THEN markCombined(topMatch, secondary[1])
             ELSE topMatch
    ELSE topMatch
\* mutant: the detection needs more than 2 leftover herbs
detectCombinedFromThree(database, topMatch) ==
    IF Len(topMatch.additionalHerbs) > MinLeftovers
    THEN LET secondary == sortedSecondary(database, topMatch)
         IN  IF Len(secondary) > 0
                  /\ validCombination(topMatch.additionalHerbs, secondary[1])
             THEN markCombined(topMatch, secondary[1])
             ELSE topMatch
    ELSE topMatch
\* the top match after the combined-formula detection
detectCombined(database, topMatch) ==
    IF Len(topMatch.additionalHerbs) >= MinLeftovers
    THEN LET secondary == sortedSecondary(database, topMatch)
         IN  IF Len(secondary) > 0
                  /\ validCombination(topMatch.additionalHerbs, secondary[1])
             THEN markCombined(topMatch, secondary[1])
             ELSE topMatch
    ELSE topMatch

findMatches(inputHerbs, database) ==
    IF Len(inputHerbs) = 0 THEN <<>>
    ELSE LET sorted == sortedMatches(inputHerbs, database)
         IN  IF Len(sorted) > 0
             THEN <<detectCombined(database, sorted[1])>> \o Tail(sorted)
             ELSE sorted

\* mutant: an empty input is compared with every formula
comparisonsOfAnyInput(inputHerbs, database) == Len(database)
\* the calls of compareFormulaWithInput that findMatches makes
comparisons(inputHerbs, database) ==
    IF Len(inputHerbs) = 0 THEN 0
    ELSE LET sorted == sortedMatches(inputHerbs, database)
         IN  Len(database)
               + IF Len(sorted) > 0 /\ Len(sorted[1].additionalHerbs) >= MinLeftovers
                 THEN Len(otherFormulas(database, sorted[1]))
                 ELSE 0

\* the arguments after the call: findMatches reads database with forEach and
\* sorts its own results array; inputHerbs is read and passed through
\* mutant: the database itself is sorted by score
databaseSorted(inputHerbs, database) ==
    LET sorted == sortedMatches(inputHerbs, database)
    IN  [i \in 1..Len(sorted) |-> sorted[i].formula]
databaseAfter(inputHerbs, database) == database
inputHerbsAfter(inputHerbs, database) == inputHerbs

----------------------------------------------------------------------------
(* The arguments of the comparison.  A composition may list a herb twice:  *)
(* the admin form splits the composition text on blanks and stores every   *)
(* piece (src/unnamed/part_001, handleSaveFormula), and the same form      *)
(* stores the reference dosages it parses, possibly for some herbs only.   *)
(* An input may name a herb twice (the parser keeps every token).          *)
(* Three families of (input, formula):                                     *)
(*   ingredient cases : inputs without dosages, up to MaxInputLen entries, *)
(*                      against formulas without reference dosages;       *)
(*   ratio cases      : inputs with dosages, up to MaxRatioLen entries,    *)
(*                      against formulas with or without reference dosages;*)
(*   the examples     : the four-herb formula MaHuangTang and the inputs   *)
(*                      "MaHuang9g GuiZhi6g XingRen9g GanCao3g" and        *)
(*                      "MaHuang30g GuiZhi30g XingRen9g GanCao3g".         *)

MaxInputLen == 5   \* longest input list of the ingredient cases
MaxCompLen == 3    \* longest composition of the ingredient cases
MaxRatioLen == 2   \* longest input list and composition of the ratio cases
MaxDosage == 2     \* largest dosage and largest reference amount of the ratio cases

Herbs == {"MaHuang", "GuiZhi", "ShiGao"}

Digit == <<"0", "1", "2", "3", "4", "5", "6", "7", "8", "9">>
RECURSIVE DecStr(_)
DecStr(n) == IF n < 10 THEN Digit[n + 1] ELSE DecStr(n \div 10) \o Digit[(n % 10) + 1]

\* the entry the parser makes of the token name, name<d> or name<d><unit>
Entry(name, d, unitText) ==
    [name |-> name,
     dosage |-> d,
     unit |-> IF unitText = "" THEN "g" ELSE unitText,
     originalText |-> IF d = 0 THEN name ELSE name \o DecStr(d) \o unitText]

SeqsUpTo(S, n) == UNION {[1..k -> S] : k \in 0..n}

PlainInputs == SeqsUpTo({Entry(n, 0, "") : n \in Herbs}, MaxInputLen)
DosedInputs == SeqsUpTo({Entry(n, d, "g") : n \in Herbs, d \in 0..MaxDosage}, MaxRatioLen)

\* a reference dosage for some of the herbs of the composition
StandardDosages(composition) ==
    {Some(m) : m \in UNION {[K -> 1..MaxDosage] :
                      K \in SUBSET {composition[i] : i \in DOMAIN composition}}}

Formula(name, composition, standardDosage, isAiGenerated) ==
    [name |-> name, composition |-> composition,
     standardDosage |-> standardDosage, isAiGenerated |-> isAiGenerated]

PlainFormulas ==
    {Formula("FangA", c, Null, ai) : c \in SeqsUpTo(Herbs, MaxCompLen), ai \in BOOLEAN}
DosedFormulas ==
    UNION {{Formula("FangA", c, sd, FALSE) : sd \in {Null} \cup StandardDosages(c)} :
           c \in SeqsUpTo(Herbs, MaxRatioLen)}

MaHuangTangHerbs == <<"MaHuang", "GuiZhi", "XingRen", "GanCao">>
MaHuangTangDosage ==
    [n \in {"MaHuang", "GuiZhi", "XingRen", "GanCao"} |->
        CASE n = "MaHuang" -> 9 [] n = "GuiZhi" -> 6 [] n = "XingRen" -> 9 [] n = "GanCao" -> 3]
MaHuangTang == Formula("MaHuangTang", MaHuangTangHerbs, Null, FALSE)
MaHuangTangDosed == Formula("MaHuangTang", MaHuangTangHerbs, Some(MaHuangTangDosage), FALSE)
ExampleFormulas == {MaHuangTang, MaHuangTangDosed}

\* "MaHuang9g GuiZhi6g XingRen9g GanCao3g"
StandardInput ==
    <<Entry("MaHuang", 9, "g"), Entry("GuiZhi", 6, "g"),
      Entry("XingRen", 9, "g"), Entry("GanCao", 3, "g")>>
\* "MaHuang30g GuiZhi30g XingRen9g GanCao3g"
SkewedInput ==
    <<Entry("MaHuang", 30, "g"), Entry("GuiZhi", 30, "g"),
      Entry("XingRen", 9, "g"), Entry("GanCao", 3, "g")>>
ExampleInputs == {StandardInput, SkewedInput}

Cases ==
    (PlainInputs \X PlainFormulas) \cup (DosedInputs \X DosedFormulas)
        \cup (ExampleInputs \X ExampleFormulas)

Init ==
    /\ ShellIdle
    /\ \E c \in Cases : herbs = c[1] /\ candidate = c[2]
    /\ result = Null
    /\ pc = "ready"
    /\ formulas = <<>> /\ matches = <<>> /\ calls = 0 /\ input = <<>>
    /\ CodecIdle

\* one call of compareFormulaWithInput(herbs, candidate)
Compare ==
    /\ pc = "ready"
    /\ result' = compareFormulaWithInput(herbs, candidate)
    /\ pc' = "compared"
    /\ UNCHANGED <<herbs, candidate, formulas, matches, calls, input>>
    /\ UNCHANGED codecVars
    /\ UNCHANGED shellVars

Next == Compare

Spec == Init /\ [][Next]_vars

TypeOK == pc \in {"ready", "compared"}

----------------------------------------------------------------------------
(* The arguments of findMatches.  Three families of (input, database):     *)
(*   ranking cases  : inputs without dosages, up to MaxRankInput entries   *)
(*                    (a herb may be repeated), against databases of up to *)
(*                    MaxDatabase formulas, which may share a name;        *)
(*   dosed cases    : inputs with dosages against a formula with reference *)
(*                    dosages and a larger formula, in both orders;        *)
(*   the example    : MaHuangTang and BaiHuTang, in both orders, and the   *)
(*                    input "MaHuang GuiZhi XingRen GanCao ShiGao ZhiMu    *)
(*                    JingMi";                                             *)
(*   the tie        : three formulas, in every order, two of which score   *)
(*                    the same on the leftovers of the third.              *)

MaxDatabase == 2    \* longest database of the ranking cases
MaxRankInput == 3   \* longest input list of the ranking cases

RankCompositions ==
    {<<"MaHuang">>, <<"GuiZhi">>, <<"ShiGao">>,
     <<"MaHuang", "GuiZhi">>, <<"MaHuang", "ShiGao">>, <<"GuiZhi", "ShiGao">>,
     <<"MaHuang", "GuiZhi", "ShiGao">>}
RankFormulas ==
    {Formula(n, c, Null, FALSE) : n \in {"FangA", "FangB"}, c \in RankCompositions}
\* the inputs name their herbs in one fixed order, repetitions included
HerbOrder(n) == CASE n = "MaHuang" -> 1 [] n = "GuiZhi" -> 2 [] n = "ShiGao" -> 3
RankInputs ==
    {s \in SeqsUpTo({Entry(n, 0, "") : n \in Herbs}, MaxRankInput) :
        \A i \in 1..(Len(s) - 1) : HerbOrder(s[i].name) <= HerbOrder(s[i + 1].name)}
RankDatabases == SeqsUpTo(RankFormulas, MaxDatabase)

RatioFormula ==
    Formula("FangA", <<"MaHuang", "GuiZhi">>,
            Some([n \in {"MaHuang", "GuiZhi"} |-> IF n = "MaHuang" THEN 2 ELSE 1]), FALSE)
LargerFormula == Formula("FangB", <<"MaHuang", "GuiZhi", "ShiGao">>, Null, FALSE)
DosedDatabases == {<<RatioFormula, LargerFormula>>, <<LargerFormula, RatioFormula>>}

BaiHuTang == Formula("BaiHuTang", <<"ShiGao", "ZhiMu", "GanCao", "JingMi">>, Null, FALSE)
\* "MaHuang GuiZhi XingRen GanCao ShiGao ZhiMu JingMi"
CombinedInput ==
    <<Entry("MaHuang", 0, ""), Entry("GuiZhi", 0, ""), Entry("XingRen", 0, ""),
      Entry("GanCao", 0, ""), Entry("ShiGao", 0, ""), Entry("ZhiMu", 0, ""),
      Entry("JingMi", 0, "")>>
ExampleDatabases == {<<MaHuangTang, BaiHuTang>>, <<BaiHuTang, MaHuangTang>>}

\* "MaHuang GuiZhi ShiGao"
TieInput == <<Entry("MaHuang", 0, ""), Entry("GuiZhi", 0, ""), Entry("ShiGao", 0, "")>>
TieFormulas ==
    {Formula("FangA", <<"MaHuang">>, Null, FALSE),
     Formula("FangB", <<"GuiZhi">>, Null, FALSE),
     Formula("FangC", <<"GuiZhi", "ShiGao", "ZhiMu">>, Null, FALSE)}
TieDatabases ==
    {d \in [1..3 -> TieFormulas] : \A i, j \in 1..3 : d[i] = d[j] => i = j}

RankCases ==
    (RankInputs \X RankDatabases) \cup (DosedInputs \X DosedDatabases)
        \cup ({CombinedInput} \X ExampleDatabases) \cup ({TieInput} \X TieDatabases)

InitRank ==
    /\ ShellIdle
    /\ \E c \in RankCases : herbs = c[1] /\ formulas = c[2]
    /\ matches = <<>>
    /\ calls = 0
    /\ pc = "ready"
    /\ candidate = MaHuangTang /\ result = Null /\ input = <<>>
    /\ CodecIdle

\* one call of findMatches(herbs, formulas); it may be called again
FindMatches ==
    /\ pc \in {"ready", "ranked"}
    /\ matches' = findMatches(herbs, formulas)
    /\ calls' = comparisons(herbs, formulas)
    /\ formulas' = databaseAfter(herbs, formulas)
    /\ herbs' = inputHerbsAfter(herbs, formulas)
    /\ pc' = "ranked"
    /\ UNCHANGED <<candidate, result, input>>
    /\ UNCHANGED codecVars
    /\ UNCHANGED shellVars

NextRank == FindMatches

SpecRank == InitRank /\ [][NextRank]_vars

----------------------------------------------------------------------------
(* The arguments of calculateRatioSimilarity.  compareFormulaWithInput     *)
(* calls it when the input names exactly the herbs of the composition,     *)
(* every entry has a dosage and the formula has a standardDosage: inputs   *)
(* of up to MaxJudgedLen entries with dosages 1..MaxDosage, a herb may be  *)
(* entered more than once, against the formulas of RankCompositions with a *)
(* reference amount for some or all of their herbs.                        *)

MaxJudgedLen == 3   \* longest input list handed to calculateRatioSimilarity

JudgedInputs == SeqsUpTo({Entry(n, d, "g") : n \in Herbs, d \in 1..MaxDosage}, MaxJudgedLen)
JudgedFormulas ==
    UNION {{Formula("FangA", c, sd, FALSE) : sd \in StandardDosages(c)} :
           c \in RankCompositions}

InitRatio ==
    /\ ShellIdle
    /\ herbs \in JudgedInputs
    /\ candidate \in JudgedFormulas
    /\ exactIngredients(herbs, candidate)
    /\ hasDosage(herbs)
    /\ result = Null
    /\ pc = "ready"
    /\ formulas = <<>> /\ matches = <<>> /\ calls = 0 /\ input = <<>>
    /\ CodecIdle

\* one call of calculateRatioSimilarity(herbs, candidate.standardDosage)
JudgeRatio ==
    /\ pc = "ready"
    /\ result' = Some(calculateRatioSimilarity(herbs, Get(candidate.standardDosage)))
    /\ pc' = "judged"
    /\ UNCHANGED <<herbs, candidate, formulas, matches, calls, input>>
    /\ UNCHANGED codecVars
    /\ UNCHANGED shellVars

NextRatio == JudgeRatio

SpecRatio == InitRatio /\ [][NextRatio]_vars

----------------------------------------------------------------------------
(* parseFormulaInput, src/utils.ts 12-49.  A text is a sequence of         *)
(* characters, a character a string: an ASCII character is itself, a CJK   *)
(* ideograph is written as its syllable ("Ma", "Gui"), the other           *)
(* characters by a name ("FullComma" for U+FF0C, "IdeoComma" for U+3001,   *)
(* "IdeoStop" for U+3002, "IdeoSpace" for U+3000, "LF", "CR", "TAB").      *)

CJK == {"Ma", "Huang", "Gui", "Zhi", "Liang"}    \* modelled part of [一-龥]
Letters == {"g", "m", "l", "G"}                  \* modelled part of [a-zA-Z]
Digits == {Digit[i] : i \in 1..10}               \* \d
Delimiters == {"FullComma", ",", "IdeoComma", "LF", "CR", "TAB", "IdeoStop"}
WhiteSpace == {" ", "LF", "CR", "TAB", "IdeoSpace"}   \* modelled part of \s

\* the string of a sequence of characters
RECURSIVE Concat(_)
Concat(chars) == IF Len(chars) = 0 THEN "" ELSE Head(chars) \o Concat(Tail(chars))

\* how many leading characters of text are in S (a greedy S*)
RECURSIVE runIn(_, _)
runIn(text, S) ==
    IF Len(text) > 0 /\ Head(text) \in S THEN 1 + runIn(Tail(text), S) ELSE 0
RECURSIVE runNotIn(_, _)
runNotIn(text, S) ==
    IF Len(text) > 0 /\ Head(text) \notin S THEN 1 + runNotIn(Tail(text), S) ELSE 0

\* input.replace(/[FullComma , IdeoComma \n \r \t IdeoStop]/g, ' ')
replaceDelimiters(text) ==
    [i \in 1..Len(text) |-> IF text[i] \in Delimiters THEN " " ELSE text[i]]

\* String.prototype.trim
RECURSIVE trimEnd(_)
trimEnd(text) ==
    IF Len(text) > 0 /\ text[Len(text)] \in WhiteSpace
    THEN trimEnd(SubSeq(text, 1, Len(text) - 1))
    ELSE text
trim(text) == trimEnd(SubSeq(text, runIn(text, WhiteSpace) + 1, Len(text)))

normalizedInput(text) == trim(replaceDelimiters(text))

\* normalizedInput.split(/\s+/).filter(t => t.length > 0)
RECURSIVE splitOnSpace(_)
splitOnSpace(text) ==
    IF Len(text) = 0 THEN <<>>
    ELSE IF Head(text) \in WhiteSpace THEN splitOnSpace(Tail(text))
    ELSE LET n == runNotIn(text, WhiteSpace)
         IN  <<SubSeq(text, 1, n)>> \o splitOnSpace(SubSeq(text, n + 1, Len(text)))
tokens(text) == splitOnSpace(normalizedInput(text))

\* (\d*\.?\d+) at the head of text: the length of its greedy match, 0 for none.
\* \d* takes the digits d, \.? a dot, \d+ the digits after it; without digits
\* after the dot, \d* gives back its last digit to \d+ and the dot is left.
numberLength(text) ==
    LET d == runIn(text, Digits)
        rest == SubSeq(text, d + 1, Len(text))
        e == IF Len(rest) > 0 /\ Head(rest) = "." THEN runIn(Tail(rest), Digits) ELSE 0
    IN  IF e > 0 THEN d + 1 + e ELSE d

\* mutant: the name group may be empty, the token need not start with a name
parserRegexUnanchored(token) ==
    LET n == runIn(token, CJK)
        afterName == SubSeq(token, n + 1, Len(token))
        d == numberLength(afterName)
        afterNumber == SubSeq(afterName, d + 1, Len(afterName))
    IN  IF runIn(afterNumber, Letters \cup CJK) = Len(afterNumber)
        THEN Some([rawName |-> SubSeq(token, 1, n),
                   rawDosage |-> SubSeq(afterName, 1, d),
                   rawUnit |-> afterNumber])
        ELSE Null
\* token.match(parserRegex): Null, or the groups name, dosage and unit (an
\* optional group that took no part in the match is the empty sequence)
parserRegex(token) ==
    LET n == runIn(token, CJK)
        afterName == SubSeq(token, n + 1, Len(token))
        d == numberLength(afterName)
        afterNumber == SubSeq(afterName, d + 1, Len(afterName))
    IN  IF n >= 1 /\ runIn(afterNumber, Letters \cup CJK) = Len(afterNumber)
        THEN Some([rawName |-> SubSeq(token, 1, n),
                   rawDosage |-> SubSeq(afterName, 1, d),
                   rawUnit |-> afterNumber])
        ELSE Null


\* parseFloat of a text matched by (\d*\.?\d+): an integer when the value is
\* one, the quotient otherwise
DigitValue(c) == CHOOSE v \in 0..9 : Digit[v + 1] = c
RECURSIVE digitsValue(_)
digitsValue(text) ==
    IF Len(text) = 0 THEN 0
    ELSE 10 * digitsValue(SubSeq(text, 1, Len(text) - 1)) + DigitValue(text[Len(text)])
RECURSIVE Pow10(_)
Pow10(k) == IF k = 0 THEN 1 ELSE 10 * Pow10(k - 1)
parseFloat(text) ==
    LET d == runIn(text, Digits)
        whole == digitsValue(SubSeq(text, 1, d))
        decimals == SubSeq(text, d + 2, Len(text))
    IN  IF digitsValue(decimals) = 0 THEN whole
        ELSE Frac(whole * Pow10(Len(decimals)) + digitsValue(decimals),
                  Pow10(Len(decimals)))

\* the alias table of constants.ts: informal herb name -> canonical name
HERB_ALIASES == [rawName \in {"Gui"} |-> "GuiZhi"]

\* mutant: a name without an alias entry resolves to nothing
standardNameNoFallback(rawName) ==
    IF rawName \in DOMAIN HERB_ALIASES THEN HERB_ALIASES[rawName] ELSE ""
\* HERB_ALIASES[rawName] || rawName
standardName(rawName) ==
    IF rawName \in DOMAIN HERB_ALIASES /\ HERB_ALIASES[rawName] # ""
    THEN HERB_ALIASES[rawName]
    ELSE rawName

\* mutant: the unit is "g" whatever the token says
herbOfGrams(token) ==
    LET match == Get(parserRegex(token))
    IN  [name |-> standardName(Concat(match.rawName)),
         dosage |-> IF Len(match.rawDosage) > 0 THEN parseFloat(match.rawDosage) ELSE 0,
         unit |-> "g",
         originalText |-> Concat(token)]
\* the Herb pushed for a token that matches
herbOf(token) ==
    LET match == Get(parserRegex(token))
    IN  [name |-> standardName(Concat(match.rawName)),
         dosage |-> IF Len(match.rawDosage) > 0 THEN parseFloat(match.rawDosage) ELSE 0,
         unit |-> IF Len(match.rawUnit) > 0 THEN Concat(match.rawUnit) ELSE "g",
         originalText |-> Concat(token)]

\* mutant: a herb that was pushed before is not pushed again
RECURSIVE pushDistinct(_)
pushDistinct(toks) ==
    IF Len(toks) = 0 THEN <<>>
    ELSE LET before == pushDistinct(SubSeq(toks, 1, Len(toks) - 1))
             last == toks[Len(toks)]
         IN  IF IsNull(parserRegex(last))
                   \/ \E i \in DOMAIN before : before[i].name = herbOf(last).name
             THEN before
             ELSE Append(before, herbOf(last))
\* tokens.forEach: a Herb for every token that matches, in order
RECURSIVE pushMatching(_)
pushMatching(toks) ==
    IF Len(toks) = 0 THEN <<>>
    ELSE (IF IsNull(parserRegex(Head(toks))) THEN <<>> ELSE <<herbOf(Head(toks))>>)
            \o pushMatching(Tail(toks))

parseFormulaInput(text) == pushMatching(tokens(text))

----------------------------------------------------------------------------
(* The texts handed to the parser: every text of up to MaxTextLen          *)
(* characters over two ideographs, a digit, the dot, two letters, the      *)
(* blank, the comma and a character that belongs to no token shape.        *)

MaxTextLen == 5     \* longest text handed to the parser

TextAlphabet == {"Ma", "Gui", "9", ".", "g", "l", " ", ",", ":"}
Texts == SeqsUpTo(TextAlphabet, MaxTextLen)

InitParse ==
    /\ ShellIdle
    /\ input \in Texts
    /\ herbs = <<>>
    /\ pc = "ready"
    /\ candidate = MaHuangTang /\ result = Null
    /\ formulas = <<>> /\ matches = <<>> /\ calls = 0
    /\ CodecIdle

\* one call of parseFormulaInput(input)
Parse ==
    /\ pc = "ready"
    /\ herbs' = parseFormulaInput(input)
    /\ pc' = "parsed"
    /\ UNCHANGED <<input, candidate, result, formulas, matches, calls>>
    /\ UNCHANGED codecVars
    /\ UNCHANGED shellVars

NextParse == Parse

SpecParse == InitParse /\ [][NextParse]_vars

----------------------------------------------------------------------------
(* parseDosageString and formatDosageToString, src/utils.ts 68-91.  A      *)
(* Record<string, number> is the sequence of its entries [name, amount] in *)
(* the order of its keys, each key once; a name is the sequence of its     *)
(* characters, an amount a quotient [num, den, rad] with rad = 1 whose     *)
(* denominator divides a power of ten.                                     *)

\* the decimal digits of a natural number
RECURSIVE decimalDigits(_)
decimalDigits(n) ==
    IF n < 10 THEN <<Digit[n + 1]>>
    ELSE Append(decimalDigits(n \div 10), Digit[(n % 10) + 1])

\* `${amount}`: Number::toString of a non-negative amount x = m / 10^k.  With
\* n the place of the decimal point among the digits of m: the digits with
\* the point for 0 < n, "0." and -n zeros before the digits for -6 < n <= 0,
\* the exponent notation d.ddde-x for n <= -6.
numberToString(x) ==
    LET k == CHOOSE j \in 0..9 :
                 /\ Pow10(j) % x.den = 0
                 /\ \A i \in 0..(j - 1) : Pow10(i) % x.den # 0
        digits == decimalDigits(x.num * (Pow10(k) \div x.den))
        n == Len(digits) - k
    IN  IF k = 0 THEN digits
        ELSE IF n > 0
             THEN SubSeq(digits, 1, n) \o <<".">> \o SubSeq(digits, n + 1, Len(digits))
        ELSE IF n > -6
             THEN <<"0", ".">> \o [i \in 1..(-n) |-> "0"] \o digits
        ELSE <<digits[1]>>
                \o (IF Len(digits) > 1 THEN <<".">> \o Tail(digits) ELSE <<>>)
                \o <<"e", "-">> \o decimalDigits(1 - n)

\* Object.entries(dosage).map(([name, amount]) => `${name}:${amount}`).join(' ')
RECURSIVE joinEntries(_)
joinEntries(entries) ==
    IF Len(entries) = 0 THEN <<>>
    ELSE entries[1].name \o <<":">> \o numberToString(entries[1].amount)
            \o (IF Len(entries) > 1 THEN <<" ">> \o joinEntries(Tail(entries)) ELSE <<>>)

formatDosageToString(mapping) == joinEntries(mapping)

\* str.split(/[FullComma , IdeoComma \s]+/): the parts between the runs of
\* separators, the empty parts at either end included
DosageSeparators == {"FullComma", ",", "IdeoComma"} \cup WhiteSpace
RECURSIVE splitParts(_)
splitParts(text) ==
    LET n == runNotIn(text, DosageSeparators)
        r == runIn(SubSeq(text, n + 1, Len(text)), DosageSeparators)
    IN  IF n = Len(text) THEN <<text>>
        ELSE <<SubSeq(text, 1, n)>> \o splitParts(SubSeq(text, n + r + 1, Len(text)))

\* part.match(/^([CJK]+)[:=]?(\d+(\.\d+)?)$/): Null, or the groups 1 and 2
dosageRegex(part) ==
    LET n == runIn(part, CJK)
        afterName == SubSeq(part, n + 1, Len(part))
        number == IF Len(afterName) > 0 /\ Head(afterName) \in {":", "="}
                  THEN Tail(afterName) ELSE afterName
        d == runIn(number, Digits)
        e == IF d < Len(number) /\ number[d + 1] = "."
             THEN runIn(SubSeq(number, d + 2, Len(number)), Digits) ELSE 0
    IN  IF n >= 1 /\ d >= 1 /\ (d = Len(number) \/ (e >= 1 /\ d + 1 + e = Len(number)))
        THEN Some([name |-> SubSeq(part, 1, n), amount |-> number])
        ELSE Null

\* parseFloat(match[2]) as a quotient
amountOf(text) ==
    LET d == runIn(text, Digits)
        decimals == SubSeq(text, d + 2, Len(text))
    IN  Frac(digitsValue(SubSeq(text, 1, d)) * Pow10(Len(decimals)) + digitsValue(decimals),
             Pow10(Len(decimals)))

\* result[name] = amount: a new key goes last, a known key keeps its place
assign(mapping, name, amount) ==
    IF \E i \in DOMAIN mapping : mapping[i].name = name
    THEN [i \in DOMAIN mapping |->
             IF mapping[i].name = name THEN [name |-> name, amount |-> amount]
             ELSE mapping[i]]
    ELSE Append(mapping, [name |-> name, amount |-> amount])

\* parts.forEach
RECURSIVE assignMatching(_)
assignMatching(parts) ==
    IF Len(parts) = 0 THEN <<>>
    ELSE LET before == assignMatching(SubSeq(parts, 1, Len(parts) - 1))
             match == dosageRegex(parts[Len(parts)])
         IN  IF IsNull(match) THEN before
             ELSE assign(before, Get(match).name, amountOf(Get(match).amount))

parseDosageString(text) ==
    IF Len(text) = 0 THEN <<>> ELSE assignMatching(splitParts(text))

----------------------------------------------------------------------------
(* The arguments of the codec.  Two families:                              *)
(*   mappings : up to MaxEntries entries with names of ideographs and,     *)
(*              as amounts, 0, 9, 1.5, 0.05 and the powers of ten from     *)
(*              10^-5 down to 10^-MaxDecimals; a mapping is formatted and  *)
(*              the text is parsed again, as the admin form does when a    *)
(*              formula is opened for editing and saved;                   *)
(*   texts    : every typed text of up to MaxTextLen characters over an    *)
(*              ideograph, a digit, the colon, the blank, the comma and    *)
(*              the ideographic full stop.                                 *)

MaxEntries == 2     \* most entries of a mapping
MaxDecimals == 7    \* most decimal places of an amount

CodecNames == {<<"Ma">>, <<"Gui">>, <<"Ma", "Huang">>}
CodecAmounts ==
    {Frac(0, 1), Frac(9, 1), Frac(15, 10), Frac(5, 100)}
        \cup {Frac(1, Pow10(k)) : k \in 5..MaxDecimals}
Mappings ==
    {m \in SeqsUpTo([name : CodecNames, amount : CodecAmounts], MaxEntries) :
        \A i, j \in DOMAIN m : m[i].name = m[j].name => i = j}
CodecAlphabet == {"Ma", "9", ":", " ", ",", "IdeoStop"}
TypedTexts == SeqsUpTo(CodecAlphabet, MaxTextLen)

\* the matcher is not running
CoreIdle ==
    /\ herbs = <<>> /\ candidate = MaHuangTang /\ result = Null
    /\ formulas = <<>> /\ matches = <<>> /\ calls = 0 /\ input = <<>>

InitCodec ==
    /\ ShellIdle
    /\ \/ pc = "ready" /\ dosage \in Mappings /\ str = <<>>
       \/ pc = "typed" /\ dosage = <<>> /\ str \in TypedTexts
    /\ parsed = <<>>
    /\ CoreIdle

\* one call of formatDosageToString(dosage)
FormatDosage ==
    /\ pc = "ready"
    /\ str' = formatDosageToString(dosage)
    /\ pc' = "formatted"
    /\ UNCHANGED <<dosage, parsed, coreVars>>
    /\ UNCHANGED shellVars

\* one call of parseDosageString(str), on a formatted or on a typed text
ParseDosage ==
    /\ pc \in {"formatted", "typed"}
    /\ parsed' = parseDosageString(str)
    /\ pc' = IF pc = "formatted" THEN "decoded" ELSE "read"
    /\ UNCHANGED <<dosage, str, coreVars>>
    /\ UNCHANGED shellVars

NextCodec == FormatDosage \/ ParseDosage

SpecCodec == InitCodec /\ [][NextCodec]_vars

----------------------------------------------------------------------------
(* Exceptions.  The functions of src/utils.ts throw nothing themselves; a  *)
(* call raises when it reads a property of undefined.  The reads that no   *)
(* guard of the code protects are those of                                 *)
(* inputHerbs.find(h => h.name === k)!.dosage (utils.ts 110), reached when *)
(* the ratio is checked and there are at least MinCommonKeys common keys;  *)
(* match[1], sortedMatches[0] and sortedSecondary[0] are read under the    *)
(* guards if (match), length > 0, which the operators above follow.        *)

\* find returns undefined for a common key
undefinedRead(inputHerbs, standardDosage) ==
    LET keys == commonKeys(inputHerbs, standardDosage)
    IN  /\ Len(keys) >= MinCommonKeys
        /\ \E i \in DOMAIN keys : \A j \in DOMAIN inputHerbs : inputHerbs[j].name # keys[i]

compareRaises(inputHerbs, formula) ==
    /\ ~noMatchingHerb(inputHerbs, formula)
    /\ ~weakMatch(inputHerbs, formula)
    /\ ratioChecked(inputHerbs, formula)
    /\ undefinedRead(inputHerbs, Get(formula.standardDosage))

findMatchesRaises(inputHerbs, database) ==
    /\ Len(inputHerbs) > 0
    /\ \/ \E i \in DOMAIN database : compareRaises(inputHerbs, database[i])
       \/ LET sorted == sortedMatches(inputHerbs, database)
          IN  /\ Len(sorted) > 0
              /\ Len(sorted[1].additionalHerbs) >= MinLeftovers
              /\ \E i \in DOMAIN database :
                    /\ database[i].name # sorted[1].formula.name
                    /\ compareRaises(sorted[1].additionalHerbs, database[i])

(* The arguments of the calls, the degenerate ones included: input lists   *)
(* and compositions of 0 to MaxAnyLen herbs, formulas without              *)
(* standardDosage, with an empty one, with amounts of 0 and with keys that *)
(* are no herb of the composition; databases of 0 to 2 formulas; texts of  *)
(* 0 to MaxAnyLen + 1 characters.  Every function is called on every       *)
(* state.                                                                  *)

MaxAnyLen == 2      \* longest input list and composition of these arguments

AnyHerbs == {"MaHuang", "GuiZhi"}
AnyInputs == SeqsUpTo({Entry(n, d, "g") : n \in AnyHerbs, d \in 0..1}, MaxAnyLen)
AnyFormulas ==
    {Formula("FangA", c, sd, FALSE) :
        c \in SeqsUpTo(AnyHerbs, MaxAnyLen),
        sd \in {Null} \cup {Some(m) : m \in UNION {[K -> 0..1] : K \in SUBSET Herbs}}}
AnyTexts == SeqsUpTo({"Ma", "9", ":", " "}, MaxAnyLen + 1)

InitAny ==
    /\ ShellIdle
    /\ pc = "ready"
    /\ \/ /\ herbs \in AnyInputs
          /\ candidate \in AnyFormulas
          /\ formulas \in {<<>>, <<candidate>>, <<LargerFormula, candidate>>}
          /\ input = <<>> /\ str = <<>> /\ dosage = <<>>
       \/ /\ herbs = <<>> /\ candidate = MaHuangTang /\ formulas = <<>>
          /\ input \in AnyTexts
          /\ str = input
          /\ dosage \in {m \in Mappings : Len(m) <= 1}
    /\ result = Null /\ matches = <<>> /\ calls = 0 /\ parsed = <<>>

\* a call of each function on the arguments of the state: it returns or raises
CallParseFormulaInput ==
    /\ pc = "ready"
    /\ herbs' = parseFormulaInput(input)
    /\ pc' = "parsed"
    /\ UNCHANGED <<candidate, result, formulas, matches, calls, input, codecVars>>
    /\ UNCHANGED shellVars

CallCompare ==
    /\ pc = "ready"
    /\ IF compareRaises(herbs, candidate)
       THEN pc' = "raised" /\ UNCHANGED result
       ELSE pc' = "compared" /\ result' = compareFormulaWithInput(herbs, candidate)
    /\ UNCHANGED <<herbs, candidate, formulas, matches, calls, input, codecVars>>
    /\ UNCHANGED shellVars

CallFindMatches ==
    /\ pc = "ready"
    /\ IF findMatchesRaises(herbs, formulas)
       THEN pc' = "raised" /\ UNCHANGED matches
       ELSE pc' = "ranked" /\ matches' = findMatches(herbs, formulas)
    /\ UNCHANGED <<herbs, candidate, result, formulas, calls, input, codecVars>>
    /\ UNCHANGED shellVars

CallParseDosageString ==
    /\ pc = "ready"
    /\ parsed' = parseDosageString(str)
    /\ pc' = "read"
    /\ UNCHANGED <<coreVars, dosage, str>>
    /\ UNCHANGED shellVars

CallFormatDosageToString ==
    /\ pc = "ready"
    /\ str' = formatDosageToString(dosage)
    /\ pc' = "formatted"
    /\ UNCHANGED <<coreVars, dosage, parsed>>
    /\ UNCHANGED shellVars

NextAny ==
    \/ CallParseFormulaInput \/ CallCompare \/ CallFindMatches
    \/ CallParseDosageString \/ CallFormatDosageToString

SpecAny == InitAny /\ [][NextAny]_vars

----------------------------------------------------------------------------
(* The arguments of a comparison whose input repeats herbs: lists of up to *)
(* MaxOrderLen dosed entries of two herbs, in every order, against the     *)
(* ratio formulas made of these two herbs.                                 *)

MaxOrderLen == 3    \* longest input list of the order cases

OrderHerbs == {"MaHuang", "GuiZhi"}
OrderInputs ==
    SeqsUpTo({Entry(n, d, "g") : n \in OrderHerbs, d \in 1..MaxDosage}, MaxOrderLen)
OrderFormulas ==
    {f \in DosedFormulas :
        \A i \in DOMAIN f.composition : f.composition[i] \in OrderHerbs}

InitOrder ==
    /\ ShellIdle
    /\ herbs \in OrderInputs
    /\ candidate \in OrderFormulas
    /\ result = Null
    /\ pc = "ready"
    /\ formulas = <<>> /\ matches = <<>> /\ calls = 0 /\ input = <<>>
    /\ CodecIdle

NextOrder == Compare

SpecOrder == InitOrder /\ [][NextOrder]_vars

----------------------------------------------------------------------------
(* The search page, src/App.tsx.  A handler runs to its end or to its      *)
(* await without interruption; the part of handleSearch after              *)
(* await identifyFormula(herbs) is a step of its own that runs when the    *)
(* cloud identification answers.  The texts typed are lists of the herbs    *)
(* "Ma" and "Gui" and the text "9" (no herb); the cloud answers null or    *)
(* one of two formulas.                                                    *)

AppTexts ==
    {<<"Ma">>, <<"Gui">>, <<"Ma", " ", "Gui">>, <<"Gui", " ", "Ma">>,
     <<"Gui", "9">>, <<"Ma", "l">>, <<"9">>}
dynamicFormulas ==
    <<Formula("FangA", <<"Ma">>, Null, FALSE),
      Formula("FangB", <<"Ma", "ShiGao">>, Null, FALSE)>>
IdentifiedFormulas ==
    {Null} \cup {Some(Formula("FangAI", c, Null, TRUE)) : c \in {<<"GuiZhi">>, <<"ShiGao">>}}

\* localResults.some(r => r.matchType === 'exact' && r.score > 0.95)
hasPerfectMatch(localResults) ==
    \E i \in DOMAIN localResults :
        /\ localResults[i].matchType = "exact"
        /\ Less(Frac(95, 100), localResults[i].score)

InitApp ==
    /\ AppIdle
    /\ AuthIdle
    /\ CoreIdle
    /\ CodecIdle
    /\ pc = "page"

\* handleInputChange: the user edits the text
HandleInputChange ==
    /\ \E text \in AppTexts \cup {<<>>} : text # appInput /\ appInput' = text
    /\ UNCHANGED <<shown, isSearchingCloud, pending, cleared>>
    /\ UNCHANGED <<coreVars, pc, codecVars, authVars>>

\* the search button (disabled when !input.trim() || isSearchingCloud):
\* handleSearch up to its await
HandleSearch ==
    /\ Len(trim(appInput)) > 0
    /\ ~isSearchingCloud
    /\ LET parsedHerbs == parseFormulaInput(appInput)
           localResults == findMatches(parsedHerbs, dynamicFormulas)
       IN  /\ shown' = localResults
           /\ IF ~hasPerfectMatch(localResults) /\ Len(parsedHerbs) > 0
              THEN isSearchingCloud' = TRUE /\ pending' = Some(parsedHerbs)
              ELSE UNCHANGED <<isSearchingCloud, pending>>
    /\ cleared' = FALSE
    /\ UNCHANGED appInput
    /\ UNCHANGED <<coreVars, pc, codecVars, authVars>>

\* identifyFormula answers: handleSearch after its await
CloudCompletes ==
    /\ ~IsNull(pending)
    /\ \E identifiedFormula \in IdentifiedFormulas :
          LET aiMatchResult ==
                IF IsNull(identifiedFormula) THEN Null
                ELSE compareFormulaWithInput(Get(pending), Get(identifiedFormula))
          IN  shown' = aiMatchResult \o shown
    /\ isSearchingCloud' = FALSE
    /\ pending' = Null
    /\ UNCHANGED <<appInput, cleared>>
    /\ UNCHANGED <<coreVars, pc, codecVars, authVars>>

\* the clear button: setInput(''); setMatches([]); setAiAnalysis(null)
Clear ==
    /\ appInput' = <<>>
    /\ shown' = <<>>
    /\ cleared' = TRUE
    /\ UNCHANGED <<isSearchingCloud, pending>>
    /\ UNCHANGED <<coreVars, pc, codecVars, authVars>>

NextApp == HandleInputChange \/ HandleSearch \/ CloudCompletes \/ Clear

SpecApp == InitApp /\ [][NextApp]_vars

----------------------------------------------------------------------------
(* The account store, src/services/authService.ts.  The user list and the  *)
(* session id live in localStorage; a user is [id, nickname, password,     *)
(* savedItems] (avatar and the two dates play no part).  The id of a new   *)
(* user is Date.now().toString(): the clock reads milliseconds and two     *)
(* calls may read the same value.  updateUserData is handed a user object  *)
(* that the caller got from the store, with other savedItems.              *)

MaxUsers == 3    \* most stored users
MaxClock == 2    \* last reading of the clock

Nicknames == {"a", "b"}
Passwords == {"p", "q"}

\* users.some(u => u.nickname === nickname)
nicknameTaken(list, nickname) == \E i \in DOMAIN list : list[i].nickname = nickname
\* users.findIndex(u => u.id === id), 0 for -1
findIndex(list, id) ==
    IF \E i \in DOMAIN list : list[i].id = id
    THEN CHOOSE i \in DOMAIN list :
            list[i].id = id /\ \A k \in 1..(i - 1) : list[k].id # id
    ELSE 0
\* users.find(u => u.nickname === nickname && u.password === password)
findLogin(list, nickname, password) ==
    LET hits == {i \in DOMAIN list :
                    list[i].nickname = nickname /\ list[i].password = password}
    IN  IF hits = {} THEN Null
        ELSE Some(list[CHOOSE i \in hits : \A k \in hits : i <= k])
getCurrentUser ==
    IF currentId = 0 \/ findIndex(users, currentId) = 0 THEN Null
    ELSE Some(users[findIndex(users, currentId)])

InitAuth ==
    /\ AuthIdle
    /\ AppIdle
    /\ CoreIdle
    /\ CodecIdle
    /\ pc = "store"

\* a millisecond passes
Tick ==
    /\ now < MaxClock
    /\ now' = now + 1
    /\ reply' = NoCall
    /\ UNCHANGED <<users, currentId>>
    /\ UNCHANGED <<coreVars, pc, codecVars, appVars>>

Register ==
    /\ Len(users) < MaxUsers
    /\ \E nickname \in Nicknames, password \in Passwords :
          IF nicknameTaken(users, nickname)
          THEN /\ reply' = [call |-> "register", nickname |-> nickname, success |-> FALSE]
               /\ UNCHANGED <<users, currentId>>
          ELSE /\ users' = Append(users, [id |-> now, nickname |-> nickname,
                                          password |-> password, savedItems |-> 0])
               /\ currentId' = now
               /\ reply' = [call |-> "register", nickname |-> nickname, success |-> TRUE]
    /\ UNCHANGED now
    /\ UNCHANGED <<coreVars, pc, codecVars, appVars>>

Login ==
    /\ \E nickname \in Nicknames, password \in Passwords :
          LET user == findLogin(users, nickname, password)
          IN  IF IsNull(user)
              THEN /\ reply' = [call |-> "login", nickname |-> nickname, success |-> FALSE]
                   /\ UNCHANGED currentId
              ELSE /\ reply' = [call |-> "login", nickname |-> nickname, success |-> TRUE]
                   /\ currentId' = Get(user).id
    /\ UNCHANGED <<users, now>>
    /\ UNCHANGED <<coreVars, pc, codecVars, appVars>>

Logout ==
    /\ currentId' = 0
    /\ reply' = NoCall
    /\ UNCHANGED <<users, now>>
    /\ UNCHANGED <<coreVars, pc, codecVars, appVars>>

\* updateUserData(updatedUser), the nickname of updatedUser unchanged
UpdateUserData ==
    /\ \E i \in DOMAIN users, savedItems \in 0..1 :
          LET updatedUser == [users[i] EXCEPT !.savedItems = savedItems]
              index == findIndex(users, updatedUser.id)
          IN  users' = IF index # 0 THEN [users EXCEPT ![index] = updatedUser] ELSE users
    /\ reply' = NoCall
    /\ UNCHANGED <<currentId, now>>
    /\ UNCHANGED <<coreVars, pc, codecVars, appVars>>

DeleteUser ==
    /\ \E userId \in 1..MaxClock :
          users' = SelectSeq(users, LAMBDA u : u.id # userId)
    /\ reply' = NoCall
    /\ UNCHANGED <<currentId, now>>
    /\ UNCHANGED <<coreVars, pc, codecVars, appVars>>

NextAuth == Tick \/ Register \/ Login \/ Logout \/ UpdateUserData \/ DeleteUser

SpecAuth == InitAuth /\ [][NextAuth]_vars

----------------------------------------------------------------------------
(* What the properties below read off a state: the call has returned, the  *)
(* returned MatchResult, and the overlap counted directly on the arguments.*)
Returned == pc = "compared" /\ ~IsNull(result)
ReturnedNull == pc = "compared" /\ IsNull(result)
Res == Get(result)

InInput(n) == \E j \in DOMAIN herbs : herbs[j].name = n
InComposition(n) == \E i \in DOMAIN candidate.composition : candidate.composition[i] = n
\* positions of the composition whose herb is (is not) among the input names
Present == {i \in DOMAIN candidate.composition : InInput(candidate.composition[i])}
Absent == {i \in DOMAIN candidate.composition : ~InInput(candidate.composition[i])}
\* positions of the input whose herb is not in the composition
Extra == {j \in DOMAIN herbs : ~InComposition(herbs[j].name)}
SameHerbSet == Absent = {} /\ Extra = {}
AllDosed == \A j \in DOMAIN herbs : herbs[j].dosage > 0
HasStandardDosage == ~IsNull(candidate.standardDosage)
\* the similarity the matcher computes for the arguments
Similarity == calculateRatioSimilarity(herbs, Get(candidate.standardDosage))

\* The cosine of the two dosage vectors, summed herb by herb, for an input
\* that names no herb twice and a formula with a reference amount for each.
RECURSIVE SumOf(_, _)
SumOf(S, f) ==
    IF S = {} THEN 0
    ELSE LET x == CHOOSE y \in S : TRUE IN f[x] + SumOf(S \ {x}, f)
NoRepeatedHerb == Len(herbs) = Cardinality(inputNames(herbs))
AllReferenced ==
    \A n \in inputNames(herbs) :
        n \in DOMAIN Get(candidate.standardDosage) /\ Get(candidate.standardDosage)[n] > 0
DoseOf(n) == herbs[CHOOSE j \in DOMAIN herbs : herbs[j].name = n].dosage
Cosine ==
    LET names == inputNames(herbs)
        std == Get(candidate.standardDosage)
    IN  [num |-> SumOf(names, [n \in names |-> DoseOf(n) * std[n]]),
         den |-> 1,
         rad |-> SumOf(names, [n \in names |-> DoseOf(n) * DoseOf(n)])
                   * SumOf(names, [n \in names |-> std[n] * std[n]])]

(* C1: compareFormulaWithInput returns null exactly when no composition    *)
(* herb is among the input names, or the input has more than 4 entries, at *)
(* most 1 composition herb is present and the formula is not AI-generated. *)
C1_NullExactlyWhenRejected ==
    pc = "compared" =>
        (IsNull(result) <=>
            \/ Cardinality(Present) = 0
            \/ /\ Len(herbs) > 4
               /\ Cardinality(Present) <= 1
               /\ ~candidate.isAiGenerated)

\* 5 or more herbs, one of them in a non-AI formula of 2 or more herbs: null
C1_Witness ==
    /\ pc = "compared"
    /\ IsNull(result)
    /\ Len(herbs) >= 5
    /\ Cardinality(Present) = 1
    /\ Len(candidate.composition) >= 2
    /\ ~candidate.isAiGenerated

(* C2: the score of every returned MatchResult lies in [0,1].              *)
C2_ScoreInUnitInterval ==
    Returned => AtMost(Zero, Res.score) /\ AtMost(Res.score, One)

(* C3, as claimed: the input "MaHuang30g GuiZhi30g XingRen9g GanCao3g"     *)
(* against MaHuangTang with reference dosage 9:6:9:3 is a ratio-mismatch   *)
(* with a score below 1.                                                   *)
C3_SkewedIsRatioMismatch ==
    (pc = "compared" /\ herbs = SkewedInput /\ candidate = MaHuangTangDosed) =>
        /\ ~IsNull(result)
        /\ Res.matchType = "ratio-mismatch"
        /\ Less(Res.score, One)

(* C3, amended: that input has cosine similarity 540 / sqrt(1890 * 207),   *)
(* about 0.863, which is not below 0.85: the result is "exact" with score  *)
(* 1.0 and a dosageAnalysis carrying that similarity.                      *)
C3_SkewedIsExact ==
    (pc = "compared" /\ herbs = SkewedInput /\ candidate = MaHuangTangDosed) =>
        /\ ~IsNull(result)
        /\ Res.matchType = "exact"
        /\ Res.score = One
        /\ ~IsNull(Res.dosageAnalysis)
        /\ Get(Res.dosageAnalysis).similarity =
                [num |-> 540, den |-> 1, rad |-> 1890 * 207]
        /\ AtMost(Frac(85, 100), Get(Res.dosageAnalysis).similarity)
        /\ Less(Get(Res.dosageAnalysis).similarity, One)

C3_Witness ==
    /\ Returned
    /\ herbs = SkewedInput
    /\ candidate = MaHuangTangDosed
    /\ Res.matchType = "exact"

C5_NoAnalysisWithoutComparison ==
    (Returned /\ SameHerbSet
        /\ \/ ~AllDosed
           \/ ~HasStandardDosage
           \/ Cardinality({n \in inputNames(herbs) :
                  hasStandard(Get(candidate.standardDosage), n)}) < 2) =>
        /\ Res.matchType = "exact"
        /\ Res.score = One
        /\ IsNull(Res.dosageAnalysis)

C7_OverlapLists ==
    Returned =>
        /\ Res.missingHerbs =
              SelectSeq(candidate.composition, LAMBDA n : ~InInput(n))
        /\ Res.additionalHerbs =
              SelectSeq(herbs, LAMBDA h : ~InComposition(h.name))
        /\ Len(Res.missingHerbs) = Cardinality(Absent)
        /\ Len(Res.additionalHerbs) = Cardinality(Extra)
        /\ \A k \in DOMAIN Res.missingHerbs : ~InInput(Res.missingHerbs[k])
        /\ Res.inputHerbs = herbs

C7_Witness ==
    /\ Returned
    /\ Len(Res.missingHerbs) >= 2
    /\ Len(Res.additionalHerbs) >= 2

(* C8: no missing and no additional herb, and no ratio comparison that     *)
(* lowers the score: "exact" with score exactly 1.0, whatever the base     *)
(* score was; so for MaHuangTang without standardDosage and the input      *)
(* "MaHuang9g GuiZhi6g XingRen9g GanCao3g".                                *)
C8_ExactScore ==
    /\ (Returned /\ Len(Res.missingHerbs) = 0 /\ Len(Res.additionalHerbs) = 0
          /\ ~(AllDosed /\ HasStandardDosage /\ Less(Similarity, Frac(85, 100)))) =>
            Res.matchType = "exact" /\ Res.score = One
    /\ (pc = "compared" /\ herbs = StandardInput /\ candidate = MaHuangTang) =>
            /\ ~IsNull(result)
            /\ Res.matchType = "exact"
            /\ Res.score = One
            /\ Res.missingHerbs = <<>>
            /\ Res.additionalHerbs = <<>>

\* an exact match of an input that repeats a herb: the base score is below 1
C8_Witness ==
    /\ Returned
    /\ Res.matchType = "exact"
    /\ Len(herbs) > Cardinality(inputNames(herbs))
    /\ Len(herbs) > Len(candidate.composition)

(* C9: matchType is "subset" if and only if missingHerbs is empty and      *)
(* additionalHerbs is not; so for composition [MaHuang, GuiZhi] and the    *)
(* input "MaHuang GuiZhi ShiGao".                                          *)
SubsetExampleInput ==
    <<Entry("MaHuang", 0, ""), Entry("GuiZhi", 0, ""), Entry("ShiGao", 0, "")>>
C9_Subset ==
    /\ Returned =>
          (Res.matchType = "subset" <=>
              Len(Res.missingHerbs) = 0 /\ Len(Res.additionalHerbs) > 0)
    /\ (pc = "compared" /\ herbs = SubsetExampleInput
          /\ candidate.composition = <<"MaHuang", "GuiZhi">>) =>
            /\ ~IsNull(result)
            /\ Res.matchType = "subset"
            /\ Res.missingHerbs = <<>>
            /\ Len(Res.additionalHerbs) = 1
            /\ Res.additionalHerbs[1].name = "ShiGao"

C9_Witness ==
    /\ Returned
    /\ herbs = SubsetExampleInput
    /\ candidate.composition = <<"MaHuang", "GuiZhi">>
    /\ Res.matchType = "subset"

(* C10: matchType is "variant" if and only if missingHerbs is not empty,   *)
(* with or without additional herbs; matchType is always one of exact,     *)
(* variant, subset, ratio-mismatch.                                        *)
C10_Variant ==
    Returned =>
        /\ Res.matchType = "variant" <=> Len(Res.missingHerbs) > 0
        /\ Res.matchType \in {"exact", "variant", "subset", "ratio-mismatch"}

\* the input is a strict subset of the formula: variant without additions
C10_Witness ==
    /\ Returned
    /\ Res.matchType = "variant"
    /\ Len(Res.missingHerbs) > 0
    /\ Len(Res.additionalHerbs) = 0

----------------------------------------------------------------------------
(* What the properties of findMatches read off a state: the call has       *)
(* returned the list matches for the arguments herbs and formulas.         *)
Ranked == pc = "ranked"
Top == matches[1]
Leftovers == Top.additionalHerbs
CarriesIsCombined(r) == "isCombined" \in DOMAIN r
CarriesCombinedWith(r) == "combinedWith" \in DOMAIN r
\* the single comparison of the arguments with the formula at position i
Single(i) == compareFormulaWithInput(herbs, formulas[i])
Matching == {i \in DOMAIN formulas : ~IsNull(Single(i))}
SameComparison(r, c) ==
    /\ r.formula = c.formula
    /\ r.score = c.score
    /\ r.matchType = c.matchType
    /\ r.missingHerbs = c.missingHerbs
    /\ r.additionalHerbs = c.additionalHerbs
    /\ r.dosageAnalysis = c.dosageAnalysis

(* C11: the list findMatches returns is ordered by score, non-increasing:  *)
(* no element has a score below that of the element after it.              *)
C11_SortedByScore ==
    Ranked =>
        \A i \in 1..(Len(matches) - 1) : ~Less(matches[i].score, matches[i + 1].score)

\* the second formula of the database scores higher and is returned first
C11_Witness ==
    /\ Ranked
    /\ Len(formulas) = 2
    /\ Len(matches) = 2
    /\ matches[1].formula = formulas[2]
    /\ Less(matches[2].score, matches[1].score)

(* C12: for a non-empty input the returned list has exactly one element    *)
(* for each database formula whose single comparison is non-null, and no   *)
(* other; each element has the formula, score, matchType, missingHerbs,    *)
(* additionalHerbs and dosageAnalysis of that comparison.                  *)
C12_OnePerComparison ==
    (Ranked /\ Len(herbs) > 0) =>
        /\ Len(matches) = Cardinality(Matching)
        /\ \E at \in [DOMAIN matches -> Matching] :
              /\ \A p, q \in DOMAIN matches : at[p] = at[q] => p = q
              /\ \A p \in DOMAIN matches : SameComparison(matches[p], Get(Single(at[p])))

\* three formulas match and the top one is annotated as combined
C12_Witness ==
    /\ Ranked
    /\ Len(formulas) = 3
    /\ Len(matches) = 3
    /\ CarriesIsCombined(Top)
    /\ Less(Top.score, One)

(* C13, as claimed: with MaHuangTang (MaHuang, GuiZhi, XingRen, GanCao)    *)
(* and BaiHuTang (ShiGao, ZhiMu, GanCao, JingMi) in the database, the      *)
(* input "MaHuang GuiZhi XingRen GanCao ShiGao ZhiMu JingMi" has           *)
(* MaHuangTang as first result, combined with BaiHuTang.                   *)
C13_TopIsFormulaA ==
    (Ranked /\ herbs = CombinedInput
        /\ (\E i \in DOMAIN formulas : formulas[i] = MaHuangTang)
        /\ (\E j \in DOMAIN formulas : formulas[j] = BaiHuTang)) =>
        /\ Len(matches) > 0
        /\ Top.formula = MaHuangTang
        /\ CarriesIsCombined(Top) /\ Top.isCombined = TRUE
        /\ CarriesCombinedWith(Top) /\ Top.combinedWith = "BaiHuTang"

(* C13, amended: both formulas score the same on that input, so the first  *)
(* result is the one of the two that comes first in the database, combined *)
(* with the other: MaHuangTang combined with BaiHuTang when MaHuangTang    *)
(* precedes BaiHuTang.                                                     *)
C13_TopIsFirstOfTheTwo ==
    (Ranked /\ herbs = CombinedInput /\ formulas \in ExampleDatabases) =>
        /\ Len(matches) = 2
        /\ matches[1].score = matches[2].score
        /\ Top.formula = formulas[1]
        /\ CarriesIsCombined(Top) /\ Top.isCombined = TRUE
        /\ CarriesCombinedWith(Top) /\ Top.combinedWith = formulas[2].name

C13_Witness ==
    /\ Ranked
    /\ herbs = CombinedInput
    /\ formulas = <<MaHuangTang, BaiHuTang>>
    /\ Top.formula = MaHuangTang
    /\ CarriesCombinedWith(Top)
    /\ Top.combinedWith = "BaiHuTang"
    /\ Len(Leftovers) = 3

\* the candidate second formula: among the formulas of another name whose
\* comparison with the leftovers is non-null, the first of the best-scoring
OfLeftovers(j) == compareFormulaWithInput(Leftovers, formulas[j])
Eligible ==
    {j \in DOMAIN formulas :
        formulas[j].name # Top.formula.name /\ ~IsNull(OfLeftovers(j))}
BestScoring ==
    {j \in Eligible :
        \A k \in Eligible : ~Less(Get(OfLeftovers(j)).score, Get(OfLeftovers(k)).score)}
Candidate == CHOOSE j \in BestScoring : \A k \in BestScoring : j <= k
\* the composition names of the formula at position j found among the leftovers
Explained(j) ==
    Cardinality({i \in DOMAIN formulas[j].composition :
        \E l \in DOMAIN Leftovers : Leftovers[l].name = formulas[j].composition[i]})

(* C14: when the top result has at least 2 additionalHerbs, the candidate  *)
(* second formula is the highest-scoring non-null comparison of these      *)
(* leftovers with the formulas named differently from the top formula; the *)
(* top result gets isCombined = true and combinedWith = the candidate's    *)
(* name exactly when a candidate exists and it explains at least 2         *)
(* leftover names or as many as there are leftover entries; otherwise      *)
(* neither field is set; combinedWith is never the top formula's name.     *)
C14_CombinedExactlyWhenExplained ==
    (Ranked /\ Len(matches) > 0 /\ Len(Leftovers) >= 2) =>
        IF Eligible # {}
              /\ (Explained(Candidate) >= 2 \/ Explained(Candidate) = Len(Leftovers))
        THEN /\ CarriesIsCombined(Top) /\ Top.isCombined = TRUE
             /\ CarriesCombinedWith(Top)
             /\ Top.combinedWith = formulas[Candidate].name
             /\ Top.combinedWith # Top.formula.name
        ELSE ~CarriesIsCombined(Top) /\ ~CarriesCombinedWith(Top)

\* two formulas score the same on the leftovers; the first of them in the
\* database is the candidate and explains both leftovers
C14_Witness ==
    /\ Ranked
    /\ Len(matches) > 0
    /\ Len(Leftovers) = 2
    /\ Cardinality(BestScoring) = 2
    /\ Explained(Candidate) = 2
    /\ CarriesCombinedWith(Top)
    /\ Top.combinedWith = "FangC"

(* C15: only the first element of the returned list can carry isCombined   *)
(* or combinedWith, and only if its additionalHerbs has at least 2         *)
(* entries; a single comparison never carries either field; isCombined =   *)
(* true comes together with a combinedWith.                                *)
C15_OnlyTopIsAnnotated ==
    Ranked =>
        /\ \A p \in DOMAIN matches :
              (CarriesIsCombined(matches[p]) \/ CarriesCombinedWith(matches[p])) =>
                  /\ p = 1
                  /\ Len(matches[p].additionalHerbs) >= 2
                  /\ CarriesIsCombined(matches[p]) /\ matches[p].isCombined = TRUE
                  /\ CarriesCombinedWith(matches[p])
        /\ \A i \in Matching :
              ~CarriesIsCombined(Get(Single(i))) /\ ~CarriesCombinedWith(Get(Single(i)))

\* the top result has one leftover herb, which the second formula explains
\* in full: it is not annotated
C15_Witness ==
    /\ Ranked
    /\ Len(matches) = 2
    /\ Len(Leftovers) = 1
    /\ Len(matches[2].formula.composition) = 1
    /\ matches[2].formula.composition[1] = Leftovers[1].name
    /\ matches[2].formula.name # Top.formula.name
    /\ ~CarriesIsCombined(Top)

C18_EmptyInput ==
    [][Len(herbs) = 0 =>
          /\ matches' = <<>>
          /\ calls' = 0
          /\ formulas' = formulas]_vars

C18_Witness ==
    /\ Ranked
    /\ Len(herbs) = 0
    /\ Len(formulas) = 2
    /\ matches = <<>>
    /\ calls = 0

----------------------------------------------------------------------------
(* What the property of calculateRatioSimilarity reads off a state.        *)
Judged == pc = "judged"
\* the herb names entered with a nonzero dosage that are keys of the map
CommonNames ==
    {n \in DOMAIN Get(candidate.standardDosage) :
        \E j \in DOMAIN herbs : herbs[j].name = n /\ herbs[j].dosage # 0}
\* the cosine over CommonNames, each name once, with the dosage of the entry
\* at[n] for the name n
CosineOnce(at) ==
    LET std == Get(candidate.standardDosage)
    IN  [num |-> SumOf(CommonNames, [n \in CommonNames |-> herbs[at[n]].dosage * std[n]]),
         den |-> 1,
         rad |-> SumOf(CommonNames,
                       [n \in CommonNames |-> herbs[at[n]].dosage * herbs[at[n]].dosage])
                   * SumOf(CommonNames, [n \in CommonNames |-> std[n] * std[n]])]

(* C17: the ratio similarity is the cosine of the input dosages and the    *)
(* standard dosages over the set of herb names entered with a nonzero      *)
(* dosage that are keys of the standard dosage map, each name counted      *)
(* once (with the dosage of an entry of that name), and is 1 when that set *)
(* has fewer than 2 names.                                                 *)
C17_CosineOverCommonNames ==
    Judged =>
        IF Cardinality(CommonNames) < 2 THEN Same(Get(result), One)
        ELSE \E at \in [CommonNames -> DOMAIN herbs] :
                /\ \A n \in CommonNames : herbs[at[n]].name = n
                /\ Same(Get(result), CosineOnce(at))

----------------------------------------------------------------------------
(* What the properties of parseFormulaInput read off a state: the tokens   *)
(* of the text as the stretches between separators, and the token shape    *)
(* name / dosage number / unit, told from the input text itself.           *)
Parsed == pc = "parsed"
Separators == Delimiters \cup WhiteSpace
\* <<a, b>>: input[a..b] is a token
TokenSpans ==
    {sp \in (DOMAIN input) \X (DOMAIN input) :
        /\ sp[1] <= sp[2]
        /\ \A i \in sp[1]..sp[2] : input[i] \notin Separators
        /\ (sp[1] = 1 \/ input[sp[1] - 1] \in Separators)
        /\ (sp[2] = Len(input) \/ input[sp[2] + 1] \in Separators)}
TokenAt(sp) == SubSeq(input, sp[1], sp[2])
\* digits, with at most one dot in front of the last run of digits
IsNumber(text) ==
    /\ Len(text) > 0
    /\ text[Len(text)] \in Digits
    /\ \A i \in DOMAIN text : text[i] \in Digits \cup {"."}
    /\ Cardinality({i \in DOMAIN text : text[i] = "."}) <= 1
\* t is a name of ideographs, then the number (or nothing, if withNumber is
\* false), then a unit of letters and ideographs or nothing
ShapedAs(t, withNumber) ==
    \E i \in 1..Len(t) : \E j \in i..Len(t) :
        /\ \A k \in 1..i : t[k] \in CJK
        /\ IF withNumber THEN IsNumber(SubSeq(t, i + 1, j)) ELSE j = i
        /\ \A k \in (j + 1)..Len(t) : t[k] \in Letters \cup CJK
HasShape(t) == ShapedAs(t, TRUE) \/ ShapedAs(t, FALSE)
MatchingSpans == {sp \in TokenSpans : HasShape(TokenAt(sp))}
\* the place of a matching token among the matching tokens
Rank(sp) == 1 + Cardinality({q \in MatchingSpans : q[1] < sp[1]})

(* C19: parseFormulaInput returns one entry per token that has the shape   *)
(* name/dosage/unit, in the order of these tokens in the text; a herb      *)
(* typed twice gives two entries; the originalText of an entry is its      *)
(* token, character for character.                                         *)
C19_OneEntryPerMatchingToken ==
    Parsed =>
        /\ Len(herbs) = Cardinality(MatchingSpans)
        /\ \A sp \in MatchingSpans : herbs[Rank(sp)].originalText = Concat(TokenAt(sp))

\* "Ma : Ma": the herb typed twice around a token without the shape
C19_Witness ==
    /\ Parsed
    /\ Cardinality(TokenSpans) = 3
    /\ Len(herbs) = 2
    /\ herbs[1].name = herbs[2].name
    /\ herbs[1].originalText = herbs[2].originalText

\* the token carries no dosage number / a number and nothing after it
NoNumber(t) == \A i \in DOMAIN t : t[i] \notin Digits
NumberNoUnit(t) == ShapedAs(t, TRUE) /\ t[Len(t)] \in Digits
\* the letters and ideographs of a token from its first letter on
LetterTail(t) ==
    SubSeq(t, 1 + runNotIn(t, Letters), Len(t))

(* C20, as claimed: the entry of a token without dosage number has dosage  *)
(* 0 and unit "g"; the entry of a token with a dosage number and no unit   *)
(* has unit "g".                                                           *)
C20_DefaultUnit ==
    (Parsed /\ Len(herbs) = Cardinality(MatchingSpans)) =>
        \A sp \in MatchingSpans :
            /\ NoNumber(TokenAt(sp)) =>
                  herbs[Rank(sp)].dosage = 0 /\ herbs[Rank(sp)].unit = "g"
            /\ NumberNoUnit(TokenAt(sp)) => herbs[Rank(sp)].unit = "g"

(* C20, amended: the entry of a token without dosage number has dosage 0,  *)
(* and as unit the letters that follow the name, or "g" if none follow;    *)
(* the entry of a token with a dosage number and no unit has unit "g".     *)
C20_DefaultUnitUnlessTyped ==
    (Parsed /\ Len(herbs) = Cardinality(MatchingSpans)) =>
        \A sp \in MatchingSpans :
            /\ NoNumber(TokenAt(sp)) =>
                  /\ herbs[Rank(sp)].dosage = 0
                  /\ herbs[Rank(sp)].unit =
                        IF Len(LetterTail(TokenAt(sp))) > 0
                        THEN Concat(LetterTail(TokenAt(sp)))
                        ELSE "g"
            /\ NumberNoUnit(TokenAt(sp)) => herbs[Rank(sp)].unit = "g"

\* "Mal Ma9": the unit typed without a number is kept, the number without
\* a unit gets the default
C20_Witness ==
    /\ Parsed
    /\ Len(herbs) = 2
    /\ herbs[1].originalText = "Mal" /\ herbs[1].dosage = 0 /\ herbs[1].unit = "l"
    /\ herbs[2].originalText = "Ma9" /\ herbs[2].unit = "g"

----------------------------------------------------------------------------
(* What the properties of the codec read off a state.                      *)
Decoded == pc = "decoded"
EntriesOf(mapping) == {mapping[i] : i \in DOMAIN mapping}

(* C22: round trip of the dosage codec: for a mapping with names of        *)
(* ideographs and finite non-negative amounts (0 and the empty mapping     *)
(* included), parseDosageString(formatDosageToString(m)) has exactly the   *)
(* keys of m with exactly the same values.                                 *)
C22_RoundTrip ==
    Decoded => Len(parsed) = Len(dosage) /\ EntriesOf(parsed) = EntriesOf(dosage)

(* C23: parseFormulaInput, compareFormulaWithInput, findMatches,           *)
(* parseDosageString and formatDosageToString never raise: for every       *)
(* text, input list, formula and database, the empty and the degenerate    *)
(* ones included, the call ends by returning a value.                      *)
C23_NeverRaises == pc # "raised"

\* a formula without herbs is compared with a non-empty input: null
C23_Witness ==
    /\ pc = "compared"
    /\ Len(herbs) > 0
    /\ Len(candidate.composition) = 0
    /\ ~IsNull(candidate.standardDosage)
    /\ IsNull(result)

\* the raw name of a matching token: its leading run of ideographs
RawName(sp) == Concat(SubSeq(TokenAt(sp), 1, runIn(TokenAt(sp), CJK)))

Read == pc = "read"
NonEmpty(parts) == SelectSeq(parts, LAMBDA part : Len(part) > 0)

(* C25: parseDosageString breaks a text into the chunks into which         *)
(* parseFormulaInput breaks it into tokens: the non-empty parts of its     *)
(* split are the tokens of the parser, in order.                           *)
C25_SameChunks ==
    Read => NonEmpty(splitParts(str)) = tokens(str)

(* C26: whenever the top result is marked isCombined, a formula of the      *)
(* database with the name in combinedWith has at least 2 of its            *)
(* composition names among the leftover herb names of the top result:      *)
(* "explained = number of leftovers" marks nothing that "explained >= 2"   *)
(* would not mark.                                                         *)
C26_MarkedExplainsTwo ==
    (Ranked /\ Len(matches) > 0 /\ CarriesIsCombined(Top)) =>
        /\ Len(Leftovers) >= 2
        /\ \E i \in DOMAIN formulas :
              /\ formulas[i].name = Top.combinedWith
              /\ Explained(i) >= 2

\* the second formula explains every leftover of the top result
C26_Witness ==
    /\ Ranked
    /\ Len(formulas) = 2
    /\ Len(matches) > 0
    /\ CarriesIsCombined(Top)
    /\ Eligible # {}
    /\ Explained(Candidate) = Len(Leftovers)

\* the formulas named differently from the top formula with at least 2
\* composition herbs among the leftovers of the top result
Explaining ==
    {j \in DOMAIN formulas : formulas[j].name # Top.formula.name /\ Explained(j) >= 2}
Marked == CarriesIsCombined(Top) /\ Top.isCombined = TRUE

(* C27, as claimed: whenever the top result has at least 2 additionalHerbs *)
(* and the database has a formula, named differently from the top formula, *)
(* with at least 2 composition herbs among these leftovers, the top result *)
(* is marked isCombined.                                                   *)
C27_DetectionComplete ==
    (Ranked /\ Len(matches) > 0 /\ Len(Leftovers) >= 2 /\ Explaining # {}) => Marked

(* C27, amended: whenever the top result has at least 2 additionalHerbs    *)
(* and the candidate second formula (the first in database order of the    *)
(* formulas scoring highest on the leftovers) has at least 2 composition   *)
(* herbs among the leftovers, the top result is marked isCombined with the *)
(* candidate's name.                                                       *)
C27_DetectedWhenCandidateExplains ==
    (Ranked /\ Len(matches) > 0 /\ Len(Leftovers) >= 2
        /\ Eligible # {} /\ Candidate \in Explaining) =>
            Marked /\ Top.combinedWith = formulas[Candidate].name

\* two formulas score highest on the 2 leftovers, one of them explains both
\* and comes first in the database
C27_Witness ==
    /\ Ranked
    /\ Len(matches) > 0
    /\ Len(Leftovers) = 2
    /\ Cardinality(BestScoring) = 2
    /\ Cardinality(Explaining) = 1
    /\ Candidate \in Explaining
    /\ Marked

\* the input lists that are permutations of herbs
Reorderings ==
    {[i \in DOMAIN herbs |-> herbs[f[i]]] : f \in Permutations(DOMAIN herbs)}
\* both null, or the same score, matchType, missingHerbs and similarity
SameOutcome(a, b) ==
    IF IsNull(a) \/ IsNull(b) THEN IsNull(a) /\ IsNull(b)
    ELSE /\ Same(Get(a).score, Get(b).score)
         /\ Get(a).matchType = Get(b).matchType
         /\ Get(a).missingHerbs = Get(b).missingHerbs
         /\ IsNull(Get(a).dosageAnalysis) = IsNull(Get(b).dosageAnalysis)
         /\ ~IsNull(Get(a).dosageAnalysis) =>
                Same(Get(Get(a).dosageAnalysis).similarity,
                     Get(Get(b).dosageAnalysis).similarity)

(* C28: the comparison does not depend on the order of the input entries:  *)
(* for every permutation of the input list, lists that repeat a herb with  *)
(* different dosages included, the result is null when this one is, and    *)
(* otherwise has the same score, matchType, missingHerbs and               *)
(* dosageAnalysis.similarity.                                              *)
C28_OrderIndependent ==
    pc = "compared" =>
        \A p \in Reorderings : SameOutcome(result, compareFormulaWithInput(p, candidate))

(* C29: the match list on display belongs to the current request: once    *)
(* the clear button was pressed the list stays empty until the next search *)
(* is started, and the results on display were all computed for one and    *)
(* the same input.                                                         *)
C29_ShownBelongsToRequest ==
    /\ cleared => shown = <<>>
    /\ \A i, j \in DOMAIN shown : shown[i].inputHerbs = shown[j].inputHerbs

\* what the properties of the account store read off a state or a step
NicknamesDistinct ==
    \A i, j \in DOMAIN users : users[i].nickname = users[j].nickname => i = j
CurrentUserStored ==
    IsNull(getCurrentUser) \/ \E i \in DOMAIN users : users[i] = Get(getCurrentUser)
RegisterTakenRejected ==
    (reply'.call = "register" /\ nicknameTaken(users, reply'.nickname)) =>
        reply'.success = FALSE /\ UNCHANGED <<users, currentId>>

(* C30: after any sequence of register, login, logout, updateUserData      *)
(* (nickname unchanged) and deleteUser calls no two stored users share a   *)
(* nickname; register with a nickname a stored user holds fails and        *)
(* changes neither the stored list nor the session id; getCurrentUser      *)
(* returns null or a user of the stored list.                              *)
C30_NicknamesDistinct ==
    /\ [](NicknamesDistinct /\ CurrentUserStored)
    /\ [][RegisterTakenRejected]_vars

====
